---------------------------- MODULE Spec2Model ----------------------------
(***************************************************************************)
(* A model of src/cxoUtils.c (cx_Oracle utility functions):                *)
(*   cxoUtils_initializeDPI, cxoUtils_processJsonArg,                      *)
(*   cxoUtils_processSodaDocArg and cxoUtils_getModuleAndName.             *)
(*                                                                         *)
(* Each C function is one action.  The statements a call executes that are *)
(* visible outside the function (calls into ODPI-C, into the Python C API  *)
(* and into the cxoBuffer / cxoError helpers) are recorded, in program     *)
(* order, in the trace `call.calls`; the outcome of every such external    *)
(* call is an input of the action.                                         *)
(***************************************************************************)
EXTENDS Integers, Sequences, FiniteSets

(* ----------------------------- bounds --------------------------------- *)

\* number of calls of the utility functions in one run
MaxCalls == 3

\* number of SODA document wrappers (cxoSodaDoc) that exist before the run
NumWrappedDocs == 2

(* ------------------------- values and inputs -------------------------- *)

\* the NULL char pointer
NULL == "NULL"

\* the NULL dpiContext pointer; contexts are numbered from 1
NULLCTX == 0

\* an output parameter (dpiSodaDoc **handle) the function has not written
UNWRITTEN == 0

\* dpiContextCreateParams *params == NULL
NullParams == [isNull |-> TRUE]

\* the structures a caller can pass by pointer
CreateParams ==
    [defaultDriverName  : {NULL, "myapp : 1.0"},
     defaultEncoding    : {NULL, "ISO-8859-1"},
     loadErrorUrl       : {NULL, "https://example.com/help"},
     oracleClientLibDir : {NULL, "/opt/oracle/lib"}]

ParamsArg == CreateParams \cup {NullParams}

\* memset(&localParams, 0, sizeof(dpiContextCreateParams))
ZeroParams ==
    [defaultDriverName  |-> NULL,
     defaultEncoding    |-> NULL,
     loadErrorUrl       |-> NULL,
     oracleClientLibDir |-> NULL]

\* line 135; the macro is defined in cxoModule.h, its text does not matter here
CXO_DRIVER_NAME == "cx_Oracle : version"

\* lines 137-138
LOAD_ERROR_URL ==
    "https://cx-oracle.readthedocs.io/en/latest/user_guide/installation.html"

\* what dpiContext_getClientVersion can report; 0 is the zeroed static
ClientVersions == {12, 19}

\* shapes of PyObject *arg
JsonArgKinds == {"NULL", "dict", "list", "str", "bytes"}
SodaArgKinds == {"sodaDoc", "dict", "list", "int", "str"}

\* the outcomes of an external call: it succeeds or fails when the function
\* reaches it, and has no outcome (FALSE) when the function does not
Outcomes(reached) == IF reached THEN BOOLEAN ELSE {FALSE}

Count(s, x) == Cardinality({i \in 1..Len(s) : s[i] = x})

VARIABLES
    cxoDpiContext,          \* the global dpiContext* (NULLCTX or a context)
    cxoClientVersionInfo,   \* the global dpiVersionInfo
    dpiContexts,            \* ODPI-C side: per created context, the number
                            \* of dpiContext_destroy calls made on it
    sodaDocs,               \* ODPI-C side: per document handle, its
                            \* reference count
    call,                   \* the most recent call: arguments, trace, result
    prev,                   \* summary of the call before it
    ncalls

vars == <<cxoDpiContext, cxoClientVersionInfo, dpiContexts, sodaDocs,
          call, prev, ncalls>>

Summary(c) ==
    [fn     |-> c.fn,
     params |-> IF c.fn = "initializeDPI" THEN c.params ELSE NullParams,
     result |-> IF c.fn = "none" THEN 0 ELSE c.result]

Init ==
    /\ cxoDpiContext = NULLCTX
    /\ cxoClientVersionInfo = 0
    /\ dpiContexts = <<>>
    /\ sodaDocs = [d \in 1..NumWrappedDocs |-> 1]
    /\ call = [fn |-> "none"]
    /\ prev = [fn |-> "none", params |-> NullParams, result |-> 0]
    /\ ncalls = 0

(* ----------------------- cxoUtils_initializeDPI ----------------------- *)

\* lines 122-123: cxoError_raiseFromString(cxoProgrammingErrorException, ...)
AlreadyInitialized ==
    "ProgrammingError: Oracle Client library has already been initialized"

\* InitEntry without the test of params at line 120: an initialized
\* library accepts any call
InitEntry_IgnoreParams(context, params) ==
    IF context # NULLCTX THEN "return0" ELSE "create"

\* InitEntry with the early return of line 121 missing: a call without
\* parameters initializes again
InitEntry_Reinit(context, params) ==
    IF context # NULLCTX /\ params # NullParams THEN "raise" ELSE "create"

\* lines 119-125: what the function does on entry, given the global handle
InitEntry(context, params) ==
    IF context # NULLCTX
      THEN IF params = NullParams THEN "return0" ELSE "raise"
      ELSE "create"

\* LocalParams with line 133 guarded like lines 134-137: the encoding is
\* set only when the caller left it unset
LocalParams_KeepEncoding(params) ==
    LET copied == IF params # NullParams THEN params ELSE ZeroParams
    IN  [copied EXCEPT
           !.defaultEncoding = IF @ = NULL THEN "UTF-8" ELSE @,
           !.defaultDriverName = IF @ = NULL THEN CXO_DRIVER_NAME ELSE @,
           !.loadErrorUrl = IF @ = NULL THEN LOAD_ERROR_URL ELSE @]

\* lines 128-138: the parameters handed to dpiContext_createWithParams
LocalParams(params) ==
    LET copied   == IF params # NullParams THEN params ELSE ZeroParams
        encoded  == [copied EXCEPT !.defaultEncoding = "UTF-8"]
        named    == IF encoded.defaultDriverName = NULL
                      THEN [encoded EXCEPT !.defaultDriverName = CXO_DRIVER_NAME]
                      ELSE encoded
    IN  IF named.loadErrorUrl = NULL
          THEN [named EXCEPT !.loadErrorUrl = LOAD_ERROR_URL]
          ELSE named

\* InitCreate with line 150 moved before the version fetch: the handle is
\* stored as soon as the context exists
InitCreate_StoreEarly(createOk, versionOk) ==
    IF ~createOk
      THEN [calls  |-> <<"dpiContext_createWithParams",
                         "cxoError_raiseFromInfo">>,
            store  |-> FALSE, result |-> -1, error |-> "DatabaseError(errorInfo)"]
    ELSE IF ~versionOk
      THEN [calls  |-> <<"dpiContext_createWithParams",
                         "dpiContext_getClientVersion",
                         "cxoError_raiseAndReturnInt",
                         "dpiContext_destroy">>,
            store  |-> TRUE, result |-> -1, error |-> "DatabaseError"]
    ELSE [calls  |-> <<"dpiContext_createWithParams",
                       "dpiContext_getClientVersion">>,
          store  |-> TRUE, result |-> 0, error |-> "none"]

\* InitCreate with line 146 missing: the context is not destroyed when the
\* version fetch fails
InitCreate_NoDestroy(createOk, versionOk) ==
    IF ~createOk
      THEN [calls  |-> <<"dpiContext_createWithParams",
                         "cxoError_raiseFromInfo">>,
            store  |-> FALSE, result |-> -1, error |-> "DatabaseError(errorInfo)"]
    ELSE IF ~versionOk
      THEN [calls  |-> <<"dpiContext_createWithParams",
                         "dpiContext_getClientVersion",
                         "cxoError_raiseAndReturnInt">>,
            store  |-> FALSE, result |-> -1, error |-> "DatabaseError"]
    ELSE [calls  |-> <<"dpiContext_createWithParams",
                       "dpiContext_getClientVersion">>,
          store  |-> TRUE, result |-> 0, error |-> "none"]

\* lines 141-151: create the context, fetch the client version, store the
\* handle.  store = TRUE when line 150 is reached.
InitCreate(createOk, versionOk) ==
    IF ~createOk
      THEN [calls  |-> <<"dpiContext_createWithParams",
                         "cxoError_raiseFromInfo">>,
            store  |-> FALSE, result |-> -1, error |-> "DatabaseError(errorInfo)"]
    ELSE IF ~versionOk
      THEN [calls  |-> <<"dpiContext_createWithParams",
                         "dpiContext_getClientVersion",
                         "cxoError_raiseAndReturnInt",
                         "dpiContext_destroy">>,
            store  |-> FALSE, result |-> -1, error |-> "DatabaseError"]
    ELSE [calls  |-> <<"dpiContext_createWithParams",
                       "dpiContext_getClientVersion">>,
          store  |-> TRUE, result |-> 0, error |-> "none"]

\* the whole function, lines 109-152
cxoUtils_initializeDPI ==
    /\ ncalls < MaxCalls
    /\ \E params \in ParamsArg :
       \E createOk \in Outcomes(InitEntry(cxoDpiContext, params) = "create") :
       \E versionOk \in Outcomes(createOk) :
       \E written \in Outcomes(createOk /\ ~versionOk) :
       \E version \in ClientVersions :
         LET entry   == InitEntry(cxoDpiContext, params)
             context == Len(dpiContexts) + 1
             run     == InitCreate(createOk, versionOk)
         IN
         IF entry = "return0" THEN
             /\ call' = [fn |-> "initializeDPI", params |-> params,
                         paramsAfter |-> params,
                         contextBefore |-> cxoDpiContext,
                         created |-> FALSE, fetched |-> FALSE,
                         localParams |-> NullParams, calls |-> <<>>,
                         result |-> 0, error |-> "none"]
             /\ UNCHANGED <<cxoDpiContext, cxoClientVersionInfo, dpiContexts>>
         ELSE IF entry = "raise" THEN
             /\ call' = [fn |-> "initializeDPI", params |-> params,
                         paramsAfter |-> params,
                         contextBefore |-> cxoDpiContext,
                         created |-> FALSE, fetched |-> FALSE,
                         localParams |-> NullParams,
                         calls |-> <<"cxoError_raiseFromString">>,
                         result |-> -1,
                         error |-> AlreadyInitialized]
             /\ UNCHANGED <<cxoDpiContext, cxoClientVersionInfo, dpiContexts>>
         ELSE
             /\ call' = [fn |-> "initializeDPI", params |-> params,
                         paramsAfter |-> params,
                         contextBefore |-> cxoDpiContext,
                         created |-> createOk,
                         fetched |-> (createOk /\ versionOk),
                         localParams |-> LocalParams(params),
                         calls |-> run.calls,
                         result |-> run.result, error |-> run.error]
             \* ODPI-C: a created context exists until it is destroyed
             /\ dpiContexts' =
                   IF createOk
                     THEN Append(dpiContexts,
                                 Count(run.calls, "dpiContext_destroy"))
                     ELSE dpiContexts
             \* dpiContext_getClientVersion(context, &cxoClientVersionInfo)
             \* writes the global directly; what a failing call leaves in
             \* it is up to ODPI-C
             /\ cxoClientVersionInfo' =
                   IF Count(run.calls, "dpiContext_getClientVersion") = 0
                     THEN cxoClientVersionInfo
                   ELSE IF versionOk \/ written THEN version
                   ELSE cxoClientVersionInfo
             /\ cxoDpiContext' = IF run.store THEN context ELSE cxoDpiContext
    /\ prev' = Summary(call)
    /\ ncalls' = ncalls + 1
    /\ UNCHANGED sodaDocs

(* ----------------------- cxoUtils_processJsonArg ---------------------- *)

\* line 165: arg && (PyDict_Check(arg) || PyList_Check(arg))
IsDictOrList(arg) == arg \in {"dict", "list"}

\* lines 161-177.  dumpOk: json.dumps returns a new string; encodeOk:
\* cxoBuffer_fromObject fills the buffer.  "Py_DECREF(serialized)" is
\* Py_DECREF(arg) after arg was rebound to the serialized string;
\* the function never executes Py_DECREF on the caller's object.
ProcessJsonArg(arg, dumpOk, encodeOk) ==
    IF IsDictOrList(arg) /\ ~dumpOk
      THEN [calls |-> <<"cxoJsonDumpFunction">>,
            converted |-> 0, result |-> -1, error |-> "json.dumps error"]
    ELSE
      LET converted == IF IsDictOrList(arg) THEN 1 ELSE 0
          dumped    == IF converted = 1 THEN <<"cxoJsonDumpFunction">> ELSE <<>>
      IN  IF ~encodeOk
            THEN [calls |-> dumped \o <<"cxoBuffer_fromObject">>,
                  converted |-> converted, result |-> -1,
                  error |-> "encode error"]
            ELSE [calls |-> dumped \o <<"cxoBuffer_fromObject">>
                              \o (IF converted = 1
                                    THEN <<"Py_DECREF(serialized)">>
                                    ELSE <<>>),
                  converted |-> converted, result |-> 0, error |-> "none"]

cxoUtils_processJsonArg ==
    /\ ncalls < MaxCalls
    /\ \E arg \in JsonArgKinds :
       \E dumpOk \in Outcomes(IsDictOrList(arg)) :
       \E encodeOk \in Outcomes(IsDictOrList(arg) => dumpOk) :
         LET run == ProcessJsonArg(arg, dumpOk, encodeOk)
         IN  call' = [fn |-> "processJsonArg", arg |-> arg,
                      calls |-> run.calls, converted |-> run.converted,
                      \* a new string exists once json.dumps succeeded
                      serialized |-> IF IsDictOrList(arg) /\ dumpOk
                                       THEN 1 ELSE 0,
                      \* the caller's buffer is filled when the encode worked
                      buffer |-> IF Count(run.calls, "cxoBuffer_fromObject") = 1
                                    /\ encodeOk THEN 1 ELSE 0,
                      result |-> run.result, error |-> run.error]
    /\ prev' = Summary(call)
    /\ ncalls' = ncalls + 1
    /\ UNCHANGED <<cxoDpiContext, cxoClientVersionInfo, dpiContexts, sodaDocs>>

(* --------------------- cxoUtils_processSodaDocArg --------------------- *)

\* SodaDispatch with PySequence_Check in place of PyList_Check at line 198:
\* a string is taken for a literal
SodaDispatch_AnySequence(arg) ==
    IF arg = "sodaDoc" THEN "document"
    ELSE IF arg \in {"dict", "list", "str"} THEN "literal"
    ELSE "invalid"

\* lines 193, 198, 213: the three-way dispatch on the argument's type
SodaDispatch(arg) ==
    IF arg = "sodaDoc" THEN "document"
    ELSE IF arg \in {"dict", "list"} THEN "literal"
    ELSE "invalid"

\* SodaFromDocument with line 197 moved before the addRef call: *handle is
\* written also when the increment fails
SodaFromDocument_HandleFirst(doc, addRefOk) ==
    IF ~addRefOk
      THEN [calls |-> <<"dpiSodaDoc_addRef", "cxoError_raiseAndReturnInt">>,
            handle |-> doc, result |-> -1, error |-> "DatabaseError"]
      ELSE [calls |-> <<"dpiSodaDoc_addRef">>,
            handle |-> doc, result |-> 0, error |-> "none"]

\* lines 193-197: an existing cxoSodaDoc; doc is doc->handle
SodaFromDocument(doc, addRefOk) ==
    IF ~addRefOk
      THEN [calls |-> <<"dpiSodaDoc_addRef", "cxoError_raiseAndReturnInt">>,
            handle |-> UNWRITTEN, result |-> -1, error |-> "DatabaseError"]
      ELSE [calls |-> <<"dpiSodaDoc_addRef">>,
            handle |-> doc, result |-> 0, error |-> "none"]

\* SodaFromLiteral with line 209 missing: the buffer is not cleared when
\* the document cannot be created
SodaFromLiteral_NoClear(dumpOk, encodeOk, createOk, newDoc) ==
    IF ~dumpOk
      THEN [calls |-> <<"cxoJsonDumpFunction">>,
            handle |-> UNWRITTEN, result |-> -1, error |-> "json.dumps error"]
    ELSE IF ~encodeOk
      THEN [calls |-> <<"cxoJsonDumpFunction", "cxoBuffer_fromObject",
                        "Py_DECREF(serialized)">>,
            handle |-> UNWRITTEN, result |-> -1, error |-> "encode error"]
    ELSE IF ~createOk
      THEN [calls |-> <<"cxoJsonDumpFunction", "cxoBuffer_fromObject",
                        "Py_DECREF(serialized)", "dpiSodaDb_createDocument",
                        "cxoError_raiseAndReturnInt">>,
            handle |-> UNWRITTEN, result |-> -1, error |-> "DatabaseError"]
    ELSE [calls |-> <<"cxoJsonDumpFunction", "cxoBuffer_fromObject",
                      "Py_DECREF(serialized)", "dpiSodaDb_createDocument",
                      "cxoBuffer_clear">>,
          handle |-> newDoc, result |-> 0, error |-> "none"]

\* lines 198-212: a dict or list; newDoc is the handle
\* dpiSodaDb_createDocument stores when it succeeds
SodaFromLiteral(dumpOk, encodeOk, createOk, newDoc) ==
    IF ~dumpOk
      THEN [calls |-> <<"cxoJsonDumpFunction">>,
            handle |-> UNWRITTEN, result |-> -1, error |-> "json.dumps error"]
    ELSE IF ~encodeOk
      THEN [calls |-> <<"cxoJsonDumpFunction", "cxoBuffer_fromObject",
                        "Py_DECREF(serialized)">>,
            handle |-> UNWRITTEN, result |-> -1, error |-> "encode error"]
    ELSE IF ~createOk
      THEN [calls |-> <<"cxoJsonDumpFunction", "cxoBuffer_fromObject",
                        "Py_DECREF(serialized)", "dpiSodaDb_createDocument",
                        "cxoBuffer_clear", "cxoError_raiseAndReturnInt">>,
            handle |-> UNWRITTEN, result |-> -1, error |-> "DatabaseError"]
    ELSE [calls |-> <<"cxoJsonDumpFunction", "cxoBuffer_fromObject",
                      "Py_DECREF(serialized)", "dpiSodaDb_createDocument",
                      "cxoBuffer_clear">>,
          handle |-> newDoc, result |-> 0, error |-> "none"]

\* lines 214-215: PyErr_SetString(PyExc_TypeError, ...)
SodaTypeError ==
    "TypeError: value must be a SODA document or a dictionary or list"

\* lines 213-217: anything else
SodaInvalid ==
    [calls |-> <<"PyErr_SetString">>,
     handle |-> UNWRITTEN, result |-> -1,
     error |-> SodaTypeError]

\* the whole function, lines 187-220
cxoUtils_processSodaDocArg ==
    /\ ncalls < MaxCalls
    /\ \E arg \in SodaArgKinds :
       \E doc \in IF SodaDispatch(arg) = "document"
                    THEN 1..NumWrappedDocs ELSE {UNWRITTEN} :
       \E addRefOk \in Outcomes(SodaDispatch(arg) = "document") :
       \E dumpOk \in Outcomes(SodaDispatch(arg) = "literal") :
       \E encodeOk \in Outcomes(dumpOk) :
       \E createOk \in Outcomes(encodeOk) :
         LET kind   == SodaDispatch(arg)
             newDoc == Len(sodaDocs) + 1
             run    == IF kind = "document"
                         THEN SodaFromDocument(doc, addRefOk)
                       ELSE IF kind = "literal"
                         THEN SodaFromLiteral(dumpOk, encodeOk, createOk, newDoc)
                       ELSE SodaInvalid
             \* the transient objects the calls made: the string json.dumps
             \* returned and the filled cxoBuffer
             serialized == IF Count(run.calls, "cxoJsonDumpFunction") = 1
                              /\ dumpOk THEN 1 ELSE 0
             buffer     == IF Count(run.calls, "cxoBuffer_fromObject") = 1
                              /\ encodeOk THEN 1 ELSE 0
         IN
         /\ call' = [fn |-> "processSodaDocArg", arg |-> arg,
                     doc |-> doc,
                     docsBefore |-> sodaDocs,
                     calls |-> run.calls,
                     serialized |-> serialized, buffer |-> buffer,
                     handle |-> run.handle,
                     result |-> run.result, error |-> run.error]
         \* ODPI-C: addRef adds one reference to the document; a created
         \* document starts with the one reference returned in *handle
         /\ sodaDocs' =
               IF Count(run.calls, "dpiSodaDoc_addRef") = 1 /\ addRefOk
                 THEN [sodaDocs EXCEPT
                          ![doc] = @ + Count(run.calls, "dpiSodaDoc_addRef")]
               ELSE IF Count(run.calls, "dpiSodaDb_createDocument") = 1
                       /\ createOk
                 THEN Append(sodaDocs, 1)
               ELSE sodaDocs
    /\ prev' = Summary(call)
    /\ ncalls' = ncalls + 1
    /\ UNCHANGED <<cxoDpiContext, cxoClientVersionInfo, dpiContexts>>

(* ---------------------- cxoUtils_getModuleAndName --------------------- *)

\* GetModuleAndName with line 94 missing: the module string is kept when
\* the name cannot be fetched
GetModuleAndName_NoRelease(moduleOk, nameOk) ==
    IF ~moduleOk
      THEN [calls |-> <<"GetAttr(__module__)">>,
            module |-> NULL, name |-> "unwritten", result |-> -1]
    ELSE IF ~nameOk
      THEN [calls |-> <<"GetAttr(__module__)", "GetAttr(__name__)">>,
            module |-> "moduleObj", name |-> NULL, result |-> -1]
    ELSE [calls |-> <<"GetAttr(__module__)", "GetAttr(__name__)">>,
          module |-> "moduleObj", name |-> "nameObj", result |-> 0]

\* lines 86-98.  module / name are the values left in *module and *name:
\* "unwritten", NULL, or the object the attribute fetch returned.
GetModuleAndName(moduleOk, nameOk) ==
    IF ~moduleOk
      THEN [calls |-> <<"GetAttr(__module__)">>,
            module |-> NULL, name |-> "unwritten", result |-> -1]
    ELSE IF ~nameOk
      THEN [calls |-> <<"GetAttr(__module__)", "GetAttr(__name__)",
                        "Py_DECREF(module)">>,
            module |-> "moduleObj", name |-> NULL, result |-> -1]
    ELSE [calls |-> <<"GetAttr(__module__)", "GetAttr(__name__)">>,
          module |-> "moduleObj", name |-> "nameObj", result |-> 0]

cxoUtils_getModuleAndName ==
    /\ ncalls < MaxCalls
    /\ \E moduleOk \in BOOLEAN, nameOk \in BOOLEAN :
         LET run == GetModuleAndName(moduleOk, nameOk)
         IN  call' = [fn |-> "getModuleAndName",
                      calls |-> run.calls,
                      moduleFetched |-> moduleOk,
                      nameFetched |-> (moduleOk /\ nameOk),
                      module |-> run.module, name |-> run.name,
                      \* references the caller owns when the call returns:
                      \* one per object fetched, less the ones released
                      moduleRefs |-> (IF moduleOk THEN 1 ELSE 0)
                                       - Count(run.calls, "Py_DECREF(module)"),
                      nameRefs |-> (IF moduleOk /\ nameOk THEN 1 ELSE 0)
                                       - Count(run.calls, "Py_DECREF(name)"),
                      result |-> run.result,
                      error |-> IF run.result = 0 THEN "none"
                                ELSE "AttributeError"]
    /\ prev' = Summary(call)
    /\ ncalls' = ncalls + 1
    /\ UNCHANGED <<cxoDpiContext, cxoClientVersionInfo, dpiContexts, sodaDocs>>

Next ==
    \/ cxoUtils_initializeDPI
    \/ cxoUtils_processJsonArg
    \/ cxoUtils_processSodaDocArg
    \/ cxoUtils_getModuleAndName

Spec == Init /\ [][Next]_vars

(* ============================ properties ============================== *)

IsInit == call.fn = "initializeDPI"
IsJson == call.fn = "processJsonArg"
IsSoda == call.fn = "processSodaDocArg"
IsIdent == call.fn = "getModuleAndName"

\* the call before the current one was initialize(P), P not NULL, and the
\* current one is initialize(P) with the same P
TwiceInSequence ==
    /\ IsInit /\ call.params # NullParams
    /\ prev.fn = "initializeDPI" /\ prev.params = call.params

FailedAlreadyInitialized ==
    /\ call.result = -1
    /\ call.error = AlreadyInitialized
    /\ Count(call.calls, "dpiContext_createWithParams") = 0

\* C1 (as stated): for every parameter set P, when initialize(P) is called
\* twice in sequence the second call fails with the "already been
\* initialized" error, whatever P holds.
C1_SecondCallFails ==
    TwiceInSequence => FailedAlreadyInitialized

\* C1 (amended): for every parameter set P, when initialize(P) succeeds and
\* initialize(P) is called again, the second call fails with the "already
\* been initialized" error, whatever P holds.
C1_SecondCallFailsAfterSuccess ==
    (TwiceInSequence /\ prev.result = 0) => FailedAlreadyInitialized

C1_Witness ==
    /\ TwiceInSequence /\ prev.result = 0
    /\ call.params.defaultEncoding # NULL
    /\ FailedAlreadyInitialized

\* C2: once the library is initialized, every initialize(NULL) call returns 0
\* without any native call and leaves the global context handle and the
\* cached client version unchanged, whatever calls came in between.
C2_NoOpAfterSuccess ==
    [][ ( /\ cxoDpiContext # NULLCTX
          /\ ncalls' = ncalls + 1
          /\ call'.fn = "initializeDPI"
          /\ call'.params = NullParams )
        => ( /\ call'.result = 0
             /\ call'.error = "none"
             /\ call'.calls = <<>>
             /\ cxoDpiContext' = cxoDpiContext
             /\ cxoClientVersionInfo' = cxoClientVersionInfo
             /\ dpiContexts' = dpiContexts ) ]_vars

\* initialize(P) succeeded, initialize(P') failed, then initialize(NULL)
C2_Witness ==
    /\ ncalls = 3
    /\ prev.fn = "initializeDPI" /\ prev.params # NullParams
    /\ prev.result = -1
    /\ IsInit /\ call.params = NullParams /\ call.result = 0
    /\ call.calls = <<>>
    /\ cxoDpiContext = 1
    /\ cxoClientVersionInfo \in ClientVersions

\* C3: starting uninitialized, initialize stores the global handle exactly
\* when both the context creation and the client version fetch succeed;
\* when either fails it returns an error and the handle stays unset; the
\* call always starts with a context creation (so a retry can succeed).
C3_HandleOnlyOnFullSuccess ==
    (IsInit /\ call.contextBefore = NULLCTX) =>
        /\ Len(call.calls) >= 1
        /\ call.calls[1] = "dpiContext_createWithParams"
        /\ (call.created /\ call.fetched) =>
               /\ call.result = 0 /\ call.error = "none"
               /\ cxoDpiContext # NULLCTX
               /\ cxoDpiContext = Len(dpiContexts)
        /\ ~(call.created /\ call.fetched) =>
               /\ call.result = -1 /\ call.error # "none"
               /\ cxoDpiContext = NULLCTX

\* a retry that succeeded: the version fetch of the call before failed
C3_Witness ==
    /\ prev.fn = "initializeDPI" /\ prev.result = -1
    /\ IsInit /\ call.contextBefore = NULLCTX /\ call.result = 0
    /\ cxoDpiContext = 2
    /\ dpiContexts = <<1, 0>>

\* C4: the parameters passed to the context creation have defaultEncoding
\* "UTF-8" whatever the caller gave, the caller's driver name and help URL
\* when set and the fixed constants when not, every other field as the
\* caller gave it (zero without parameters); the caller's structure is
\* not modified.
C4_EffectiveParams ==
    (IsInit /\ Count(call.calls, "dpiContext_createWithParams") = 1) =>
        LET given == call.params # NullParams
            eff   == call.localParams
        IN  /\ eff.defaultEncoding = "UTF-8"
            /\ eff.defaultDriverName =
                  IF given /\ call.params.defaultDriverName # NULL
                    THEN call.params.defaultDriverName
                    ELSE CXO_DRIVER_NAME
            /\ eff.loadErrorUrl =
                  IF given /\ call.params.loadErrorUrl # NULL
                    THEN call.params.loadErrorUrl
                    ELSE LOAD_ERROR_URL
            /\ eff.oracleClientLibDir =
                  IF given THEN call.params.oracleClientLibDir ELSE NULL
            /\ call.paramsAfter = call.params

C4_Witness ==
    /\ IsInit /\ Count(call.calls, "dpiContext_createWithParams") = 1
    /\ call.params # NullParams
    /\ call.params.defaultEncoding = "ISO-8859-1"
    /\ call.params.defaultDriverName # NULL
    /\ call.params.loadErrorUrl = NULL
    /\ call.params.oracleClientLibDir # NULL
    /\ call.localParams.defaultEncoding = "UTF-8"

\* C5: in processJsonArg, whenever the serialization of a dict or list
\* succeeded, the serialized string is released exactly once before the
\* function returns, also when the encoding fails; without a serialization
\* nothing is released.
C5_SerializedReleasedOnce ==
    IsJson =>
        /\ call.serialized = 1 =>
               Count(call.calls, "Py_DECREF(serialized)") = 1
        /\ call.serialized = 0 =>
               Count(call.calls, "Py_DECREF(serialized)") = 0
        /\ Count(call.calls, "Py_DECREF(original)") = 0

\* C6: in processSodaDocArg on a dict or list, after a successful
\* serialization the serialized string is released exactly once and a
\* buffer that was built is cleared exactly once on every exit path, so
\* nothing transient is left; when the serialization fails nothing is
\* released.
C6_LiteralCleanup ==
    (IsSoda /\ call.arg \in {"dict", "list"}) =>
        /\ call.serialized = 1 =>
               /\ Count(call.calls, "Py_DECREF(serialized)") = 1
               /\ Count(call.calls, "cxoBuffer_clear") = call.buffer
               /\ (call.serialized + call.buffer)
                    - Count(call.calls, "Py_DECREF(serialized)")
                    - Count(call.calls, "cxoBuffer_clear") = 0
        /\ call.serialized = 0 =>
               /\ Count(call.calls, "Py_DECREF(serialized)") = 0
               /\ Count(call.calls, "cxoBuffer_clear") = 0
               /\ call.buffer = 0

\* the document creation failed after the buffer was built
C6_Witness ==
    /\ IsSoda /\ call.arg = "list"
    /\ call.serialized = 1 /\ call.buffer = 1
    /\ Count(call.calls, "dpiSodaDb_createDocument") = 1
    /\ call.result = -1
    /\ Count(call.calls, "cxoBuffer_clear") = 1

\* C7: processSodaDocArg on an existing document wrapper increments that
\* document's reference count exactly once, creates no document and
\* returns the wrapper's handle; when the increment fails it returns the
\* native error and does not write *handle.
C7_ExistingDocument ==
    (IsSoda /\ call.arg = "sodaDoc") =>
        /\ Count(call.calls, "dpiSodaDoc_addRef") = 1
        /\ Count(call.calls, "dpiSodaDb_createDocument") = 0
        /\ Len(sodaDocs) = Len(call.docsBefore)
        /\ call.result = 0 =>
               /\ call.handle = call.doc
               /\ sodaDocs =
                    [call.docsBefore EXCEPT ![call.doc] = @ + 1]
        /\ call.result # 0 =>
               /\ call.result = -1
               /\ call.error = "DatabaseError"
               /\ call.handle = UNWRITTEN
               /\ sodaDocs = call.docsBefore

\* the second wrapper is passed a second time
C7_Witness ==
    /\ IsSoda /\ call.arg = "sodaDoc" /\ call.result = 0
    /\ call.doc = 2 /\ call.handle = 2
    /\ call.docsBefore[2] = 2 /\ sodaDocs[2] = 3 /\ sodaDocs[1] = 1

\* C8: processSodaDocArg on anything that is neither a document wrapper nor
\* a dict nor a list fails with the TypeError, calls neither json.dumps nor
\* addRef nor createDocument, builds no buffer, creates no document and
\* does not write *handle.
C8_InvalidArgument ==
    (IsSoda /\ call.arg \notin {"sodaDoc", "dict", "list"}) =>
        /\ call.result = -1
        /\ call.error = SodaTypeError
        /\ Count(call.calls, "cxoJsonDumpFunction") = 0
        /\ Count(call.calls, "dpiSodaDoc_addRef") = 0
        /\ Count(call.calls, "dpiSodaDb_createDocument") = 0
        /\ Count(call.calls, "cxoBuffer_fromObject") = 0
        /\ call.serialized = 0 /\ call.buffer = 0
        /\ call.handle = UNWRITTEN
        /\ sodaDocs = call.docsBefore

C8_Witness ==
    /\ IsSoda /\ call.arg = "int"
    /\ call.result = -1 /\ call.error = SodaTypeError

\* C9: getModuleAndName fetches __module__ before __name__; when the module
\* fetch fails it returns at once without fetching the name; when the name
\* fetch fails the module is released exactly once, as the last step, and
\* the caller owns nothing; on success the caller owns one reference to
\* each.
C9_ModuleAndName ==
    IsIdent =>
        /\ call.calls[1] = "GetAttr(__module__)"
        /\ ~call.moduleFetched =>
               /\ call.calls = <<"GetAttr(__module__)">>
               /\ call.result = -1
               /\ call.module = NULL
               /\ call.moduleRefs = 0 /\ call.nameRefs = 0
        /\ (call.moduleFetched /\ ~call.nameFetched) =>
               /\ call.calls[2] = "GetAttr(__name__)"
               /\ Count(call.calls, "Py_DECREF(module)") = 1
               /\ call.calls[Len(call.calls)] = "Py_DECREF(module)"
               /\ call.result = -1
               /\ call.name = NULL
               /\ call.moduleRefs = 0 /\ call.nameRefs = 0
        /\ (call.moduleFetched /\ call.nameFetched) =>
               /\ call.calls = <<"GetAttr(__module__)", "GetAttr(__name__)">>
               /\ call.result = 0
               /\ call.module # NULL /\ call.name # NULL
               /\ call.moduleRefs = 1 /\ call.nameRefs = 1

\* the name fetch failed after the module fetch succeeded
C9_Witness ==
    /\ IsIdent /\ call.moduleFetched /\ ~call.nameFetched
    /\ call.result = -1 /\ call.moduleRefs = 0

\* every created context is the stored one (never destroyed) or was
\* destroyed exactly once
ContextsAccounted ==
    /\ cxoDpiContext \in 0..Len(dpiContexts)
    /\ \A c \in 1..Len(dpiContexts) :
          dpiContexts[c] = IF c = cxoDpiContext THEN 0 ELSE 1
    /\ Cardinality({c \in 1..Len(dpiContexts) : dpiContexts[c] = 0})
          = IF cxoDpiContext # NULLCTX THEN 1 ELSE 0

\* C10: after any sequence of initialize calls every native context that
\* was created is the one in the global handle or was destroyed exactly
\* once (one live context when the handle is set, none otherwise), and
\* once set the handle never changes.
C10_NoContextLeak ==
    /\ []ContextsAccounted
    /\ [][cxoDpiContext # NULLCTX => cxoDpiContext' = cxoDpiContext]_vars

\* two version fetches failed, then the initialization succeeded
C10_Witness ==
    /\ dpiContexts = <<1, 1, 0>>
    /\ cxoDpiContext = 3
    /\ IsInit /\ call.result = 0

=============================================================================
